---- MODULE Spec2Model ----
(***************************************************************************)
(* A model of prove.py, the exhaustive prover for an algebra of filesystem *)
(* commands: Content, Node, Filesystem, Command, CommandPair, their        *)
(* factories and the classification driver.                                *)
(***************************************************************************)
EXTENDS Integers, Sequences, FiniteSets, TLC

VARIABLES
    ca, cb, csame,          \* two Content objects and the last Content.isSame result
    node, nprev, nop,       \* a Node, its value before the last call, the last call
    fs, fprev, fcmd,        \* a Filesystem, its value before the last command, that command
    efs, fs_res, fs_single, applied,  \* one test iteration: an enumerated Filesystem, two clones
    gpc, grel, gi, gj, gnodes1, gnodes2, gout,  \* the generators of FilesystemFactory
    pc, idx, cand, canSimplify, out,  \* the classification driver
    pheap, pfrom, pmade,    \* CommandPair objects and their command lists, by identity
    nheap, ifs, ires, iother, iyield, itest, isq, ipc, imut
                            \* Node objects by identity in one iteration of a test loop

vars == <<ca, cb, csame, node, nprev, nop, fs, fprev, fcmd,
          efs, fs_res, fs_single, applied,
          gpc, grel, gi, gj, gnodes1, gnodes2, gout,
          pc, idx, cand, canSimplify, out,
          pheap, pfrom, pmade,
          nheap, ifs, ires, iother, iyield, itest, isq, ipc, imut>>

contentVars == <<ca, cb, csame>>
nodeVars    == <<node, nprev, nop>>
fsVars      == <<fs, fprev, fcmd>>
cmpVars     == <<efs, fs_res, fs_single, applied>>
genVars     == <<gpc, grel, gi, gj, gnodes1, gnodes2, gout>>
driverVars  == <<pc, idx, cand, canSimplify, out>>
pairVars    == <<pheap, pfrom, pmade>>
iterVars    == <<nheap, ifs, ires, iother, iyield, itest, isq, ipc, imut>>

----------------------------------------------------------------------------
(* Constants for Content.type *)
DIR   == " Dir"
FILE  == "File"
EMPTY == "Empty"

Kinds == <<EMPTY, FILE, DIR>>

(* Python's None in Node.broken *)
NONE == "<None>"

(* class Content *)
Content(type, value) == [type |-> type, value |-> value]

Content_default == Content(EMPTY, "Unknown")

Content_clone(c) == Content(c.type, c.value)

Content_isSame(c, content) == (c.type = content.type /\ c.value = content.value)

Content_isDir(c) == (c.type = DIR)

Content_isFile(c) == (c.type = FILE)

Content_isEmpty(c) == (c.type = EMPTY)

Content_getType(c) == c.type

Content_getValue(c) == IF Content_isEmpty(c) THEN "Unknown" ELSE c.value

ContentFactory(value) ==
    << Content(EMPTY, "Unknown"), Content(FILE, value), Content(DIR, value) >>

----------------------------------------------------------------------------
(* class Node *)
(* checkTreeProperty without the has_child check *)
Node_checkTreeProperty_parentOnly(n) ==
    IF ~Content_isEmpty(n.content) /\ ~n.has_parent
    THEN [n EXCEPT !.broken = "tree-nonempty-noparent"] ELSE n

(* checkTreeProperty that recomputes validity from scratch *)
Node_checkTreeProperty_recompute(n) ==
    LET n0 == [n EXCEPT !.broken = NONE]
        n1 == IF ~Content_isEmpty(n0.content) /\ ~n0.has_parent
              THEN [n0 EXCEPT !.broken = "tree-nonempty-noparent"] ELSE n0
    IN  IF n1.has_child /\ ~Content_isDir(n1.content)
        THEN [n1 EXCEPT !.broken = "tree-notdir-haschild"] ELSE n1

(* checkTreeProperty that keeps the first reason it finds *)
Node_checkTreeProperty_firstWins(n) ==
    IF ~Content_isEmpty(n.content) /\ ~n.has_parent
    THEN [n EXCEPT !.broken = "tree-nonempty-noparent"]
    ELSE IF n.has_child /\ ~Content_isDir(n.content)
    THEN [n EXCEPT !.broken = "tree-notdir-haschild"] ELSE n

Node_checkTreeProperty(n) ==
    LET n1 == IF ~Content_isEmpty(n.content) /\ ~n.has_parent
              THEN [n EXCEPT !.broken = "tree-nonempty-noparent"] ELSE n
    IN  IF n1.has_child /\ ~Content_isDir(n1.content)
        THEN [n1 EXCEPT !.broken = "tree-notdir-haschild"] ELSE n1

(* Node.__init__; broken is the truth value of the constructor argument *)
Node_init(has_parent, content, has_child, broken) ==
    Node_checkTreeProperty(
        [has_parent |-> has_parent, content |-> content, has_child |-> has_child,
         broken |-> IF broken THEN "Constructor" ELSE NONE])

Node_isBroken(n) == ~(n.broken = NONE)

Node_clone(n) ==
    Node_init(n.has_parent, Content_clone(n.content), n.has_child, Node_isBroken(n))

Node_isSame(n, m) ==
    IF Node_isBroken(n) /\ Node_isBroken(m) THEN TRUE
    ELSE IF Node_isBroken(n) \/ Node_isBroken(m) THEN FALSE
    ELSE (n.has_parent = m.has_parent /\ Content_isSame(n.content, m.content)
          /\ n.has_child = m.has_child)

Node_setBroken(n, reason) == [n EXCEPT !.broken = reason]

Node_getContent(n) == n.content

Node_setContent(n, content) == Node_checkTreeProperty([n EXCEPT !.content = content])

(* setHasChild without the check *)
Node_setHasChild_noCheck(n, v) == [n EXCEPT !.has_child = v]

Node_setHasChild(n, v) == Node_checkTreeProperty([n EXCEPT !.has_child = v])

Node_setHasParent(n, v) == Node_checkTreeProperty([n EXCEPT !.has_parent = v])

Node_assertDescendant(n) ==
    IF ~n.has_child \/ ~Content_isDir(n.content)
    THEN [n EXCEPT !.broken = "assert-child"] ELSE n

Node_assertNoDescendants(n) ==
    IF n.has_child THEN [n EXCEPT !.broken = "assert-no-child"] ELSE n

Node_assertParent(n) ==
    IF ~n.has_parent THEN [n EXCEPT !.broken = "assert-parent"] ELSE n

Node_assertNoParent(n) ==
    IF n.has_parent THEN [n EXCEPT !.broken = "assert-no-parent"] ELSE n

(* The 12 raw combinations in the order of NodeFactory's three loops *)
RawCombos(value) ==
    [i \in 1..12 |->
        [has_parent |-> (i > 6),
         content    |-> ContentFactory(value)[(((i - 1) \div 2) % 3) + 1],
         has_child  |-> ((i - 1) % 2 = 1)]]

RawNodes(value) ==
    [i \in 1..12 |->
        Node_init(RawCombos(value)[i].has_parent, RawCombos(value)[i].content,
                  RawCombos(value)[i].has_child, FALSE)]

NodeFactory(value) ==
    << Node_init(FALSE, Content_default, FALSE, TRUE) >>
    \o SelectSeq(RawNodes(value), LAMBDA n : ~Node_isBroken(n))

----------------------------------------------------------------------------
(* Constants for Filesystem.rel *)
DIRECT_PARENT      == "DirectParent"
DIRECT_PARENT_ONLY == "DirectParentOnly"
DIRECT_CHILD       == "DirectChild"
DIRECT_CHILD_ONLY  == "DirectChildOnly"
SEPARATE           == "Separate"
SAME               == "Same"

(* Constants for Command.path *)
PATH1 == "P1"
PATH2 == "P2"

(* class Filesystem *)
Filesystem_isBroken(f) == (Node_isBroken(f.p1) \/ Node_isBroken(f.p2))

Filesystem_checkTreeProperty(f) ==
    IF f.rel = SEPARATE THEN f
    ELSE
    LET p1IsParent == f.rel \in {DIRECT_CHILD, DIRECT_CHILD_ONLY}
        parent0 == IF p1IsParent THEN f.p1 ELSE f.p2
        child0  == IF p1IsParent THEN f.p2 ELSE f.p1
        only    == f.rel \in {DIRECT_CHILD_ONLY, DIRECT_PARENT_ONLY}
        parent1 == IF ~Content_isEmpty(Node_getContent(child0))
                   THEN Node_assertDescendant(parent0) ELSE parent0
        child1  == IF ~Content_isEmpty(Node_getContent(parent1))
                   THEN Node_assertParent(child0) ELSE Node_assertNoParent(child0)
        parent2 == IF only /\ Content_isEmpty(Node_getContent(child1))
                   THEN Node_assertNoDescendants(parent1) ELSE parent1
    IN  [p1  |-> IF p1IsParent THEN parent2 ELSE child1,
         p2  |-> IF p1IsParent THEN child1 ELSE parent2,
         rel |-> f.rel]

Filesystem_init(p1, p2, rel) ==
    Filesystem_checkTreeProperty([p1 |-> p1, p2 |-> p2, rel |-> rel])

Filesystem_clone(f) == Filesystem_init(Node_clone(f.p1), Node_clone(f.p2), f.rel)

(* isSame that compares the nodes without looking at the filesystems' own state *)
Filesystem_isSame_structural(f, g) ==
    (Node_isSame(f.p1, g.p1) /\ Node_isSame(f.p2, g.p2) /\ f.rel = g.rel)

Filesystem_isSame(f, g) ==
    IF Filesystem_isBroken(f) /\ Filesystem_isBroken(g) THEN TRUE
    ELSE IF Filesystem_isBroken(f) \/ Filesystem_isBroken(g) THEN FALSE
    ELSE (Node_isSame(f.p1, g.p1) /\ Node_isSame(f.p2, g.p2) /\ f.rel = g.rel)

(* isExtendedBy that does not compare the relationship *)
Filesystem_isExtendedBy_ignoreRel(f, g) ==
    IF Filesystem_isBroken(f) THEN TRUE
    ELSE IF Filesystem_isBroken(g) THEN FALSE
    ELSE (Node_isSame(f.p1, g.p1) /\ Node_isSame(f.p2, g.p2))

(* isExtendedBy with the two broken tests in the other order *)
Filesystem_isExtendedBy_otherFirst(f, g) ==
    IF Filesystem_isBroken(g) THEN FALSE
    ELSE IF Filesystem_isBroken(f) THEN TRUE
    ELSE (Node_isSame(f.p1, g.p1) /\ Node_isSame(f.p2, g.p2) /\ f.rel = g.rel)

Filesystem_isExtendedBy(f, g) ==
    IF Filesystem_isBroken(f) THEN TRUE
    ELSE IF Filesystem_isBroken(g) THEN FALSE
    ELSE (Node_isSame(f.p1, g.p1) /\ Node_isSame(f.p2, g.p2) /\ f.rel = g.rel)

(* class Command *)
Command(path, start, end) == [path |-> path, start |-> start, end |-> end]

Command_getPath(c) == c.path

Command_getEnd(c) == c.end

(* applyToNode that stores the end content before it checks the start kind *)
Command_applyToNode_setFirst(c, n) ==
    IF Content_getType(Node_getContent(n)) # Content_getType(c.start)
    THEN Node_setBroken(Node_setContent(n, c.end), "command-start")
    ELSE Node_setContent(n, c.end)

Command_applyToNode(c, n) ==
    IF Content_getType(Node_getContent(n)) # Content_getType(c.start)
    THEN Node_setBroken(n, "command-start")
    ELSE Node_setContent(n, c.end)

CommandFactory(path, value) ==
    [i \in 1..9 |->
        Command(path, ContentFactory("N/A")[((i - 1) \div 3) + 1],
                      ContentFactory(value)[((i - 1) % 3) + 1])]

(* applyCommand that forgets to clear has_parent of the child when the parent is deleted *)
Filesystem_applyCommand_keepParent(f, command) ==
    LET command_path == Command_getPath(command)
        new_content  == Command_getEnd(command)
        p1IsParent   == f.rel \in {DIRECT_CHILD, DIRECT_CHILD_ONLY}
        childpath    == IF p1IsParent THEN PATH2 ELSE PATH1
        parentpath   == IF p1IsParent THEN PATH1 ELSE PATH2
        child0       == IF p1IsParent THEN f.p2 ELSE f.p1
        parent0      == IF p1IsParent THEN f.p1 ELSE f.p2
        parent1      == IF command_path = childpath /\ ~Content_isEmpty(new_content)
                        THEN Node_setHasChild(parent0, TRUE) ELSE parent0
        parent2      == IF command_path = childpath
                           /\ f.rel \in {DIRECT_CHILD_ONLY, DIRECT_PARENT_ONLY}
                           /\ Content_isEmpty(new_content)
                        THEN Node_setHasChild(parent1, FALSE) ELSE parent1
        child1       == IF command_path = parentpath
                        THEN (IF Content_isEmpty(new_content)
                              THEN child0
                              ELSE Node_setHasParent(child0, TRUE))
                        ELSE child0
        g            == IF f.rel # SEPARATE
                        THEN [p1  |-> IF p1IsParent THEN parent2 ELSE child1,
                              p2  |-> IF p1IsParent THEN child1 ELSE parent2,
                              rel |-> f.rel]
                        ELSE f
    IN  IF command_path = PATH1
        THEN [g EXCEPT !.p1 = Command_applyToNode(command, g.p1)]
        ELSE [g EXCEPT !.p2 = Command_applyToNode(command, g.p2)]

(* applyCommand with the child and parent path labels exchanged *)
Filesystem_applyCommand_swappedPaths(f, command) ==
    LET command_path == Command_getPath(command)
        new_content  == Command_getEnd(command)
        p1IsParent   == f.rel \in {DIRECT_CHILD, DIRECT_CHILD_ONLY}
        childpath    == IF p1IsParent THEN PATH1 ELSE PATH2
        parentpath   == IF p1IsParent THEN PATH2 ELSE PATH1
        child0       == IF p1IsParent THEN f.p2 ELSE f.p1
        parent0      == IF p1IsParent THEN f.p1 ELSE f.p2
        parent1      == IF command_path = childpath /\ ~Content_isEmpty(new_content)
                        THEN Node_setHasChild(parent0, TRUE) ELSE parent0
        parent2      == IF command_path = childpath
                           /\ f.rel \in {DIRECT_CHILD_ONLY, DIRECT_PARENT_ONLY}
                           /\ Content_isEmpty(new_content)
                        THEN Node_setHasChild(parent1, FALSE) ELSE parent1
        child1       == IF command_path = parentpath
                        THEN (IF Content_isEmpty(new_content)
                              THEN Node_setHasParent(child0, FALSE)
                              ELSE Node_setHasParent(child0, TRUE))
                        ELSE child0
        g            == IF f.rel # SEPARATE
                        THEN [p1  |-> IF p1IsParent THEN parent2 ELSE child1,
                              p2  |-> IF p1IsParent THEN child1 ELSE parent2,
                              rel |-> f.rel]
                        ELSE f
    IN  IF command_path = PATH1
        THEN [g EXCEPT !.p1 = Command_applyToNode(command, g.p1)]
        ELSE [g EXCEPT !.p2 = Command_applyToNode(command, g.p2)]

(* applyCommand that adjusts the flags under the Separate relationship too *)
Filesystem_applyCommand_noSeparate(f, command) ==
    LET command_path == Command_getPath(command)
        new_content  == Command_getEnd(command)
        p1IsParent   == f.rel \in {DIRECT_CHILD, DIRECT_CHILD_ONLY}
        childpath    == IF p1IsParent THEN PATH2 ELSE PATH1
        parentpath   == IF p1IsParent THEN PATH1 ELSE PATH2
        child0       == IF p1IsParent THEN f.p2 ELSE f.p1
        parent0      == IF p1IsParent THEN f.p1 ELSE f.p2
        parent1      == IF command_path = childpath /\ ~Content_isEmpty(new_content)
                        THEN Node_setHasChild(parent0, TRUE) ELSE parent0
        parent2      == IF command_path = childpath
                           /\ f.rel \in {DIRECT_CHILD_ONLY, DIRECT_PARENT_ONLY}
                           /\ Content_isEmpty(new_content)
                        THEN Node_setHasChild(parent1, FALSE) ELSE parent1
        child1       == IF command_path = parentpath
                        THEN (IF Content_isEmpty(new_content)
                              THEN Node_setHasParent(child0, FALSE)
                              ELSE Node_setHasParent(child0, TRUE))
                        ELSE child0
        g            == IF TRUE
                        THEN [p1  |-> IF p1IsParent THEN parent2 ELSE child1,
                              p2  |-> IF p1IsParent THEN child1 ELSE parent2,
                              rel |-> f.rel]
                        ELSE f
    IN  IF command_path = PATH1
        THEN [g EXCEPT !.p1 = Command_applyToNode(command, g.p1)]
        ELSE [g EXCEPT !.p2 = Command_applyToNode(command, g.p2)]

(* applyCommand that does not set has_parent of the child when the parent is created *)
Filesystem_applyCommand_noSetParent(f, command) ==
    LET command_path == Command_getPath(command)
        new_content  == Command_getEnd(command)
        p1IsParent   == f.rel \in {DIRECT_CHILD, DIRECT_CHILD_ONLY}
        childpath    == IF p1IsParent THEN PATH2 ELSE PATH1
        parentpath   == IF p1IsParent THEN PATH1 ELSE PATH2
        child0       == IF p1IsParent THEN f.p2 ELSE f.p1
        parent0      == IF p1IsParent THEN f.p1 ELSE f.p2
        parent1      == IF command_path = childpath /\ ~Content_isEmpty(new_content)
                        THEN Node_setHasChild(parent0, TRUE) ELSE parent0
        parent2      == IF command_path = childpath
                           /\ f.rel \in {DIRECT_CHILD_ONLY, DIRECT_PARENT_ONLY}
                           /\ Content_isEmpty(new_content)
                        THEN Node_setHasChild(parent1, FALSE) ELSE parent1
        child1       == IF command_path = parentpath
                        THEN (IF Content_isEmpty(new_content)
                              THEN Node_setHasParent(child0, FALSE)
                              ELSE child0)
                        ELSE child0
        g            == IF f.rel # SEPARATE
                        THEN [p1  |-> IF p1IsParent THEN parent2 ELSE child1,
                              p2  |-> IF p1IsParent THEN child1 ELSE parent2,
                              rel |-> f.rel]
                        ELSE f
    IN  IF command_path = PATH1
        THEN [g EXCEPT !.p1 = Command_applyToNode(command, g.p1)]
        ELSE [g EXCEPT !.p2 = Command_applyToNode(command, g.p2)]

Filesystem_applyCommand(f, command) ==
    LET command_path == Command_getPath(command)
        new_content  == Command_getEnd(command)
        p1IsParent   == f.rel \in {DIRECT_CHILD, DIRECT_CHILD_ONLY}
        childpath    == IF p1IsParent THEN PATH2 ELSE PATH1
        parentpath   == IF p1IsParent THEN PATH1 ELSE PATH2
        child0       == IF p1IsParent THEN f.p2 ELSE f.p1
        parent0      == IF p1IsParent THEN f.p1 ELSE f.p2
        parent1      == IF command_path = childpath /\ ~Content_isEmpty(new_content)
                        THEN Node_setHasChild(parent0, TRUE) ELSE parent0
        parent2      == IF command_path = childpath
                           /\ f.rel \in {DIRECT_CHILD_ONLY, DIRECT_PARENT_ONLY}
                           /\ Content_isEmpty(new_content)
                        THEN Node_setHasChild(parent1, FALSE) ELSE parent1
        child1       == IF command_path = parentpath
                        THEN (IF Content_isEmpty(new_content)
                              THEN Node_setHasParent(child0, FALSE)
                              ELSE Node_setHasParent(child0, TRUE))
                        ELSE child0
        g            == IF f.rel # SEPARATE
                        THEN [p1  |-> IF p1IsParent THEN parent2 ELSE child1,
                              p2  |-> IF p1IsParent THEN child1 ELSE parent2,
                              rel |-> f.rel]
                        ELSE f
    IN  IF command_path = PATH1
        THEN [g EXCEPT !.p1 = Command_applyToNode(command, g.p1)]
        ELSE [g EXCEPT !.p2 = Command_applyToNode(command, g.p2)]

RECURSIVE ApplyFrom(_, _, _)
ApplyFrom(f, commands, i) ==
    IF i > Len(commands) THEN f
    ELSE ApplyFrom(Filesystem_applyCommand(f, commands[i]), commands, i + 1)

(* applySequence that stops after the first command *)
Filesystem_applySequence_firstOnly(f, sequence) ==
    Filesystem_applyCommand(f, sequence.commands[1])

(* sequence is a record with a commands field (Sequence / CommandPair) *)
Filesystem_applySequence(f, sequence) == ApplyFrom(f, sequence.commands, 1)

(* All 36 (p1_source, p2) combinations in the order of FilesystemFactory's loops *)
RawFilesystems(rel) ==
    LET n1 == NodeFactory("Old1")
        n2 == NodeFactory("Old2")
    IN  [i \in 1..(Len(n1) * Len(n2)) |->
            Filesystem_init(Node_clone(n1[((i - 1) \div Len(n2)) + 1]),
                            n2[((i - 1) % Len(n2)) + 1], rel)]

FilesystemFactory(rel) ==
    << Filesystem_init(Node_init(FALSE, Content_default, FALSE, TRUE),
                       Node_init(FALSE, Content_default, FALSE, TRUE), rel) >>
    \o SelectSeq(RawFilesystems(rel), LAMBDA f : ~Filesystem_isBroken(f))

FsRels == <<SEPARATE, DIRECT_CHILD, DIRECT_CHILD_ONLY, DIRECT_PARENT, DIRECT_PARENT_ONLY>>

Range(s) == {s[i] : i \in DOMAIN s}

(* FilesystemFactory(rel), evaluated once per relationship *)
Filesystems == [rel \in Range(FsRels) |-> FilesystemFactory(rel)]

----------------------------------------------------------------------------
(* Values left in the variables a specification does not use *)
NoContent == Content("-", "-")
NoNode    == [has_parent |-> FALSE, content |-> NoContent, has_child |-> FALSE, broken |-> NONE]
NoCommand == Command("-", NoContent, NoContent)
NoFs      == [p1 |-> NoNode, p2 |-> NoNode, rel |-> "-"]
NoOp      == [name |-> "-"]

ContentIdle == ca = NoContent /\ cb = NoContent /\ csame = <<>>
NodeIdle    == node = NoNode /\ nprev = NoNode /\ nop = NoOp
FsIdle      == fs = NoFs /\ fprev = NoFs /\ fcmd = NoCommand
CmpIdle     == efs = NoFs /\ fs_res = NoFs /\ fs_single = NoFs /\ applied = {}
GenIdle     == gpc = "-" /\ grel = "-" /\ gi = 0 /\ gj = 0 /\ gnodes1 = <<>> /\ gnodes2 = <<>> /\ gout = <<>>
DriverIdle  == pc = "-" /\ idx = 0 /\ cand = 0 /\ canSimplify = FALSE /\ out = <<>>
NoObject    == [p1 |-> 0, p2 |-> 0, rel |-> "-"]
PairIdle    == pheap = [lists |-> <<>>, objs |-> <<>>] /\ pfrom = <<>> /\ pmade = <<>>
IterIdle    == /\ nheap = <<>> /\ ifs = NoObject /\ ires = NoObject /\ iother = NoObject
               /\ iyield = NoFs /\ itest = "-" /\ isq = 0 /\ ipc = "-" /\ imut = {}

----------------------------------------------------------------------------
(* Commands applied to one Filesystem, one after the other                 *)
(* the commands CommandPairFactory draws its pairs from *)
AllCommands ==
    Range(CommandFactory(PATH1, "New1")) \cup Range(CommandFactory(PATH2, "New2"))
    \cup Range(CommandFactory(PATH1, "New2"))

FsInit ==
    /\ \E rel \in Range(FsRels) : fs \in Range(Filesystems[rel])
    /\ fprev = fs
    /\ fcmd = NoCommand
    /\ ContentIdle /\ NodeIdle /\ CmpIdle /\ GenIdle /\ DriverIdle /\ PairIdle /\ IterIdle

ApplyCommand(command) ==
    /\ fprev' = fs
    /\ fcmd' = command
    /\ fs' = Filesystem_applyCommand(fs, command)
    /\ UNCHANGED <<contentVars, nodeVars, cmpVars, genVars, driverVars, pairVars, iterVars>>

FsNext == \E command \in AllCommands : ApplyCommand(command)

SpecFs == FsInit /\ [][FsNext]_vars

----------------------------------------------------------------------------
(* The methods of one Node, called in any order                            *)
NodeContents == Range(ContentFactory("Old1")) \cup Range(ContentFactory("New1"))

NodeCommands == Range(CommandFactory(PATH1, "New1"))

NodeInit ==
    /\ \E hp \in BOOLEAN, c \in NodeContents, hc \in BOOLEAN, b \in BOOLEAN :
           node = Node_init(hp, c, hc, b)
    /\ nprev = node
    /\ nop = NoOp
    /\ ContentIdle /\ FsIdle /\ CmpIdle /\ GenIdle /\ DriverIdle /\ PairIdle /\ IterIdle

NodeCall(name, arg, result) ==
    /\ nprev' = node
    /\ nop' = [name |-> name, arg |-> arg]
    /\ node' = result
    /\ UNCHANGED <<contentVars, fsVars, cmpVars, genVars, driverVars, pairVars, iterVars>>

SetContent(content)  == NodeCall("setContent", content, Node_setContent(node, content))
SetHasChild(v)       == NodeCall("setHasChild", v, Node_setHasChild(node, v))
SetHasParent(v)      == NodeCall("setHasParent", v, Node_setHasParent(node, v))
CheckTreeProperty    == NodeCall("checkTreeProperty", 0, Node_checkTreeProperty(node))
AssertDescendant     == NodeCall("assertDescendant", 0, Node_assertDescendant(node))
AssertNoDescendants  == NodeCall("assertNoDescendants", 0, Node_assertNoDescendants(node))
AssertParent         == NodeCall("assertParent", 0, Node_assertParent(node))
AssertNoParent       == NodeCall("assertNoParent", 0, Node_assertNoParent(node))
ApplyToNode(command) == NodeCall("applyToNode", command, Command_applyToNode(command, node))
CloneNode            == NodeCall("clone", 0, Node_clone(node))

NodeNext ==
    \/ \E content \in NodeContents : SetContent(content)
    \/ \E v \in BOOLEAN : SetHasChild(v)
    \/ \E v \in BOOLEAN : SetHasParent(v)
    \/ CheckTreeProperty
    \/ AssertDescendant
    \/ AssertNoDescendants
    \/ AssertParent
    \/ AssertNoParent
    \/ \E command \in NodeCommands : ApplyToNode(command)
    \/ CloneNode

SpecNode == NodeInit /\ [][NodeNext]_vars

(* A run exercises one object: a Node through its methods, or a Filesystem *)
(* through applyCommand.                                                    *)
EntityInit == NodeInit \/ FsInit

EntityNext == (FsIdle /\ NodeNext) \/ (NodeIdle /\ FsNext)

SpecEntity == EntityInit /\ [][EntityNext]_vars

----------------------------------------------------------------------------
(* Two Content objects, as the constructor builds them, and their          *)
(* comparison                                                              *)
ContentValues == {"Unknown", "Old1", "New1"}

Contents == {Content(Kinds[k], v) : k \in DOMAIN Kinds, v \in ContentValues}

ContentInit ==
    /\ ca \in Contents
    /\ cb \in Contents
    /\ csame = <<>>
    /\ NodeIdle /\ FsIdle /\ CmpIdle /\ GenIdle /\ DriverIdle /\ PairIdle /\ IterIdle

(* csame holds the result of the last ca.isSame(cb) *)
IsSame ==
    /\ csame' = << Content_isSame(ca, cb) >>
    /\ UNCHANGED <<ca, cb, nodeVars, fsVars, cmpVars, genVars, driverVars, pairVars, iterVars>>

CloneContent ==
    /\ ca' = Content_clone(ca)
    /\ cb' = Content_clone(cb)
    /\ csame' = <<>>
    /\ UNCHANGED <<nodeVars, fsVars, cmpVars, genVars, driverVars, pairVars, iterVars>>

ContentNext == IsSame \/ CloneContent

SpecContent == ContentInit /\ [][ContentNext]_vars

----------------------------------------------------------------------------
(* FilesystemFactory(rel) as the generators run: the outer NodeFactory     *)
(* ("Old1") and, for each node it yields, a new inner NodeFactory ("Old2"). *)
(* gi and gj count the steps each NodeFactory has taken: step 0 yields the  *)
(* broken node, step k constructs the k-th raw combination.                 *)
NumRaw == 12

GenInit ==
    /\ gpc = "start"
    /\ grel \in Range(FsRels)
    /\ gi = 0 /\ gj = 0
    /\ gnodes1 = <<>> /\ gnodes2 = <<>>
    /\ gout = <<>>
    /\ ContentIdle /\ NodeIdle /\ FsIdle /\ CmpIdle /\ DriverIdle /\ PairIdle /\ IterIdle

(* what a NodeFactory yields at step k: a sequence of no or one node *)
NodeFactoryStep(value, k) ==
    IF k = 0 THEN << Node_init(FALSE, Content_default, FALSE, TRUE) >>
    ELSE IF ~Node_isBroken(RawNodes(value)[k]) THEN << RawNodes(value)[k] >>
    ELSE << >>

GenYieldBroken ==
    /\ gpc = "start"
    /\ gout' = << Filesystem_init(Node_init(FALSE, Content_default, FALSE, TRUE),
                                  Node_init(FALSE, Content_default, FALSE, TRUE), grel) >>
    /\ gpc' = "outer"
    /\ UNCHANGED <<grel, gi, gj, gnodes1, gnodes2>>
    /\ UNCHANGED <<contentVars, nodeVars, fsVars, cmpVars, driverVars, pairVars, iterVars>>

GenOuterStep ==
    /\ gpc = "outer" /\ gi <= NumRaw
    /\ gi' = gi + 1
    /\ gnodes1' = gnodes1 \o NodeFactoryStep("Old1", gi)
    /\ IF NodeFactoryStep("Old1", gi) # << >>
       THEN gpc' = "inner" /\ gj' = 0 /\ gnodes2' = << >>
       ELSE UNCHANGED <<gpc, gj, gnodes2>>
    /\ UNCHANGED <<grel, gout>>
    /\ UNCHANGED <<contentVars, nodeVars, fsVars, cmpVars, driverVars, pairVars, iterVars>>

GenOuterEnd ==
    /\ gpc = "outer" /\ gi > NumRaw
    /\ gpc' = "done"
    /\ UNCHANGED <<grel, gi, gj, gnodes1, gnodes2, gout>>
    /\ UNCHANGED <<contentVars, nodeVars, fsVars, cmpVars, driverVars, pairVars, iterVars>>

GenInnerStep ==
    /\ gpc = "inner" /\ gj <= NumRaw
    /\ gj' = gj + 1
    /\ gnodes2' = gnodes2 \o NodeFactoryStep("Old2", gj)
    /\ LET p1_source == gnodes1[Len(gnodes1)]
           made == IF NodeFactoryStep("Old2", gj) # << >>
                   THEN << Filesystem_init(Node_clone(p1_source),
                                           NodeFactoryStep("Old2", gj)[1], grel) >>
                   ELSE << >>
       IN  gout' = gout \o SelectSeq(made, LAMBDA f : ~Filesystem_isBroken(f))
    /\ UNCHANGED <<gpc, grel, gi, gnodes1>>
    /\ UNCHANGED <<contentVars, nodeVars, fsVars, cmpVars, driverVars, pairVars, iterVars>>

GenInnerEnd ==
    /\ gpc = "inner" /\ gj > NumRaw
    /\ gpc' = "outer"
    /\ UNCHANGED <<grel, gi, gj, gnodes1, gnodes2, gout>>
    /\ UNCHANGED <<contentVars, nodeVars, fsVars, cmpVars, driverVars, pairVars, iterVars>>

GenNext == GenYieldBroken \/ GenOuterStep \/ GenOuterEnd \/ GenInnerStep \/ GenInnerEnd

SpecFactory == GenInit /\ [][GenNext]_vars

----------------------------------------------------------------------------
(* class Sequence, class CommandPair *)
CommandPair(command1, command2, rel) ==
    [commands |-> <<command1, command2>>, rel |-> rel]

CommandPair_clone(sq) == CommandPair(sq.commands[1], sq.commands[2], sq.rel)

CommandPair_getRelationship(sq) == sq.rel

CommandPair_getLast(sq) == sq.commands[2]

(* Sequence.getReverse: a clone with the list of commands reversed *)
Sequence_getReverse(sq) ==
    [CommandPair_clone(sq) EXCEPT
        !.commands = [i \in 1..Len(sq.commands) |-> sq.commands[Len(sq.commands) + 1 - i]]]

CommandPair_getReverse(sq) ==
    LET tmp == Sequence_getReverse(sq)
    IN  IF sq.rel = DIRECT_PARENT THEN [tmp EXCEPT !.rel = DIRECT_CHILD]
        ELSE IF sq.rel = DIRECT_PARENT_ONLY THEN [tmp EXCEPT !.rel = DIRECT_CHILD_ONLY]
        ELSE IF sq.rel = DIRECT_CHILD THEN [tmp EXCEPT !.rel = DIRECT_PARENT]
        ELSE IF sq.rel = DIRECT_CHILD_ONLY THEN [tmp EXCEPT !.rel = DIRECT_PARENT_ONLY]
        ELSE tmp

(* the pairs in the order CommandPairFactory yields them *)
CommandPairFactory ==
    [i \in 1..(Len(FsRels) * 81) |->
        CommandPair(CommandFactory(PATH1, "New1")[(((i - 1) % 81) \div 9) + 1],
                    CommandFactory(PATH2, "New2")[((i - 1) % 9) + 1],
                    FsRels[((i - 1) \div 81) + 1])]
    \o
    [i \in 1..81 |->
        CommandPair(CommandFactory(PATH1, "New1")[((i - 1) \div 9) + 1],
                    CommandFactory(PATH1, "New2")[((i - 1) % 9) + 1],
                    SAME)]

NumPairs == Len(CommandPairFactory)

----------------------------------------------------------------------------
(* The classification driver *)

(* fs_rel of the loop body *)
FsRelOf(sq) ==
    IF CommandPair_getRelationship(sq) = SAME THEN SEPARATE
    ELSE CommandPair_getRelationship(sq)

(* the for/else of the breaks-all test, from the i-th Filesystem on: the   *)
(* sequence is applied to the yielded Filesystem itself                     *)
RECURSIVE BreaksFrom(_, _, _)
BreaksFrom(fss, sq, i) ==
    IF i > Len(fss) THEN TRUE
    ELSE IF ~Filesystem_isBroken(Filesystem_applySequence(fss[i], sq)) THEN FALSE
    ELSE BreaksFrom(fss, sq, i + 1)

(* breaks-all test that reports a break when some Filesystem is broken *)
BreaksAllTest_some(sq) ==
    \E i \in 1..Len(Filesystems[FsRelOf(sq)]) :
        Filesystem_isBroken(Filesystem_applySequence(Filesystems[FsRelOf(sq)][i], sq))

BreaksAllTest(sq) == BreaksFrom(Filesystems[FsRelOf(sq)], sq, 1)

(* candidates drawn from the first command of the pair *)
Candidates_firstCommand(sq) ==
    CommandFactory(Command_getPath(sq.commands[1]),
                   Content_getValue(Command_getEnd(sq.commands[1])))

(* the candidates of the simplification test *)
Candidates(sq) ==
    CommandFactory(Command_getPath(CommandPair_getLast(sq)),
                   Content_getValue(Command_getEnd(CommandPair_getLast(sq))))

(* fs_res and fs_single of one iteration *)
ResOf(f, sq) == Filesystem_applySequence(Filesystem_clone(f), sq)

SingleOf(f, command) == Filesystem_applyCommand(Filesystem_clone(f), command)

SimplifiesEq(sq, command) ==
    \A i \in 1..Len(Filesystems[FsRelOf(sq)]) :
        Filesystem_isSame(ResOf(Filesystems[FsRelOf(sq)][i], sq),
                          SingleOf(Filesystems[FsRelOf(sq)][i], command))

SimplifiesExt(sq, command) ==
    \A i \in 1..Len(Filesystems[FsRelOf(sq)]) :
        Filesystem_isExtendedBy(ResOf(Filesystems[FsRelOf(sq)][i], sq),
                                SingleOf(Filesystems[FsRelOf(sq)][i], command))

ReverseEq(sq) ==
    \A i \in 1..Len(Filesystems[FsRelOf(sq)]) :
        Filesystem_isSame(ResOf(Filesystems[FsRelOf(sq)][i], sq),
                          ResOf(Filesystems[FsRelOf(sq)][i], CommandPair_getReverse(sq)))

ReverseExt(sq) ==
    \A i \in 1..Len(Filesystems[FsRelOf(sq)]) :
        Filesystem_isExtendedBy(ResOf(Filesystems[FsRelOf(sq)][i], sq),
                                ResOf(Filesystems[FsRelOf(sq)][i], CommandPair_getReverse(sq)))

(* a printed line: the pair (by its position), the verdict, the right side *)
Line(i, verdict, rhs) == [sq |-> i, verdict |-> verdict, rhs |-> rhs]

(* the line or lines the simplification test prints for one candidate *)
SimplificationLines(i, sq, command) ==
    IF SimplifiesEq(sq, command) THEN << Line(i, "simplify ==", command) >>
    ELSE IF SimplifiesExt(sq, command) THEN << Line(i, "simplify =[", command) >>
    ELSE << >>

(* reversal test without the continue after each print *)
ReversalLines_noContinue(i, sq) ==
    (IF ReverseEq(sq) THEN << Line(i, "reverse ==", CommandPair_getReverse(sq)) >> ELSE << >>)
    \o (IF ReverseExt(sq) THEN << Line(i, "reverse =[", CommandPair_getReverse(sq)) >> ELSE << >>)
    \o << Line(i, "no rule", NoCommand) >>

(* the line the reversal test, or the final print, writes *)
ReversalLines(i, sq) ==
    IF ReverseEq(sq) THEN << Line(i, "reverse ==", CommandPair_getReverse(sq)) >>
    ELSE IF ReverseExt(sq) THEN << Line(i, "reverse =[", CommandPair_getReverse(sq)) >>
    ELSE << Line(i, "no rule", NoCommand) >>

DriverInit ==
    /\ pc = "breaks"
    /\ idx = 1
    /\ cand = 0
    /\ canSimplify = FALSE
    /\ out = << >>
    /\ ContentIdle /\ NodeIdle /\ FsIdle /\ CmpIdle /\ GenIdle /\ PairIdle /\ IterIdle

(* continue: the next pair of CommandPairFactory, or the end of the program *)
NextPair ==
    IF idx < NumPairs THEN pc' = "breaks" /\ idx' = idx + 1
    ELSE pc' = "done" /\ idx' = idx

DriverBreaksAll ==
    /\ pc = "breaks"
    /\ IF BreaksAllTest(CommandPairFactory[idx])
       THEN /\ out' = Append(out, Line(idx, "break", NoCommand))
            /\ NextPair
            /\ UNCHANGED <<cand, canSimplify>>
       ELSE /\ pc' = "simplify"
            /\ canSimplify' = FALSE
            /\ cand' = 1
            /\ UNCHANGED <<idx, out>>
    /\ UNCHANGED <<contentVars, nodeVars, fsVars, cmpVars, genVars, pairVars, iterVars>>

DriverCandidate ==
    /\ pc = "simplify"
    /\ CommandPair_getRelationship(CommandPairFactory[idx]) = SAME
    /\ cand <= Len(Candidates(CommandPairFactory[idx]))
    /\ LET lines == SimplificationLines(idx, CommandPairFactory[idx],
                                        Candidates(CommandPairFactory[idx])[cand])
       IN  /\ out' = out \o lines
           /\ canSimplify' = (canSimplify \/ lines # << >>)
    /\ cand' = cand + 1
    /\ UNCHANGED <<pc, idx>>
    /\ UNCHANGED <<contentVars, nodeVars, fsVars, cmpVars, genVars, pairVars, iterVars>>

DriverSimplified ==
    /\ pc = "simplify"
    /\ \/ CommandPair_getRelationship(CommandPairFactory[idx]) # SAME
       \/ cand > Len(Candidates(CommandPairFactory[idx]))
    /\ IF canSimplify THEN NextPair ELSE pc' = "reverse" /\ idx' = idx
    /\ UNCHANGED <<cand, canSimplify, out>>
    /\ UNCHANGED <<contentVars, nodeVars, fsVars, cmpVars, genVars, pairVars, iterVars>>

DriverReversal ==
    /\ pc = "reverse"
    /\ out' = out \o ReversalLines(idx, CommandPairFactory[idx])
    /\ NextPair
    /\ UNCHANGED <<cand, canSimplify>>
    /\ UNCHANGED <<contentVars, nodeVars, fsVars, cmpVars, genVars, pairVars, iterVars>>

DriverNext == DriverBreaksAll \/ DriverCandidate \/ DriverSimplified \/ DriverReversal

SpecDriver == DriverInit /\ [][DriverNext]_vars

----------------------------------------------------------------------------
(* One iteration of a test loop of the driver: an enumerated Filesystem,   *)
(* two clones of it, a pair applied to the first clone and a command or a   *)
(* reversed pair applied to the second; the results are then compared.      *)
Enumerated == UNION {Range(Filesystems[rel]) : rel \in Range(FsRels)}

PairsFor(rel) ==
    {CommandPairFactory[i] : i \in {k \in 1..NumPairs : FsRelOf(CommandPairFactory[k]) = rel}}

CmpInit ==
    /\ efs \in Enumerated
    /\ fs_res = Filesystem_clone(efs)
    /\ fs_single = Filesystem_clone(efs)
    /\ applied = {}
    /\ ContentIdle /\ NodeIdle /\ FsIdle /\ GenIdle /\ DriverIdle /\ PairIdle /\ IterIdle

CmpApplySequence(sq) ==
    /\ "res" \notin applied
    /\ fs_res' = Filesystem_applySequence(fs_res, sq)
    /\ applied' = applied \cup {"res"}
    /\ UNCHANGED <<efs, fs_single>>
    /\ UNCHANGED <<contentVars, nodeVars, fsVars, genVars, driverVars, pairVars, iterVars>>

CmpApplyCommand(command) ==
    /\ "single" \notin applied
    /\ fs_single' = Filesystem_applyCommand(fs_single, command)
    /\ applied' = applied \cup {"single"}
    /\ UNCHANGED <<efs, fs_res>>
    /\ UNCHANGED <<contentVars, nodeVars, fsVars, genVars, driverVars, pairVars, iterVars>>

CmpApplyReverse(sq) ==
    /\ "single" \notin applied
    /\ fs_single' = Filesystem_applySequence(fs_single, CommandPair_getReverse(sq))
    /\ applied' = applied \cup {"single"}
    /\ UNCHANGED <<efs, fs_res>>
    /\ UNCHANGED <<contentVars, nodeVars, fsVars, genVars, driverVars, pairVars, iterVars>>

CmpNext ==
    \/ \E sq \in PairsFor(efs.rel) : CmpApplySequence(sq)
    \/ \E command \in AllCommands : CmpApplyCommand(command)
    \/ \E sq \in PairsFor(efs.rel) : CmpApplyReverse(sq)

SpecCompare == CmpInit /\ [][CmpNext]_vars

----------------------------------------------------------------------------
(* The cross-node invariant of a relationship, stated on the flags and     *)
(* contents of the two nodes.                                              *)
ParentOf(f) == IF f.rel \in {DIRECT_CHILD, DIRECT_CHILD_ONLY} THEN f.p1 ELSE f.p2
ChildOf(f)  == IF f.rel \in {DIRECT_CHILD, DIRECT_CHILD_ONLY} THEN f.p2 ELSE f.p1

CrossInvariant(f) ==
    /\ (ChildOf(f).content.type # EMPTY
            => (ParentOf(f).has_child /\ ParentOf(f).content.type = DIR))
    /\ (ParentOf(f).content.type # EMPTY => ChildOf(f).has_parent)
    /\ (ParentOf(f).content.type = EMPTY => ~ChildOf(f).has_parent)
    /\ (f.rel \in {DIRECT_CHILD_ONLY, DIRECT_PARENT_ONLY} /\ ChildOf(f).content.type = EMPTY
            => ~ParentOf(f).has_child)

RelatedRels == {DIRECT_PARENT, DIRECT_PARENT_ONLY, DIRECT_CHILD, DIRECT_CHILD_ONLY}

(* C1: under each of the four parent/child relationships, every Filesystem  *)
(* reached from FilesystemFactory(rel) by applyCommand is broken or          *)
(* satisfies the cross-node invariant of its relationship.                   *)
C1_CrossInvariantKept ==
    fs.rel \in RelatedRels => (Filesystem_isBroken(fs) \/ CrossInvariant(fs))

(* a command on the parent path deleted the parent and cleared has_parent of *)
(* the child, and the Filesystem is still unbroken                           *)
C1_Witness ==
    /\ fs.rel \in RelatedRels
    /\ fcmd # NoCommand
    /\ fcmd.path = (IF fs.rel \in {DIRECT_CHILD, DIRECT_CHILD_ONLY} THEN PATH1 ELSE PATH2)
    /\ ~Filesystem_isBroken(fs)
    /\ ChildOf(fprev).has_parent /\ ~ChildOf(fs).has_parent
    /\ ParentOf(fprev).content.type = DIR /\ ParentOf(fs).content.type = EMPTY

(* C2: once a Node is broken no Node method and no Command.applyToNode    *)
(* makes it unbroken, and a broken Filesystem stays broken under           *)
(* applyCommand.                                                            *)
C2_BrokenAbsorbing ==
    [][ /\ (Node_isBroken(node) => Node_isBroken(node'))
        /\ (Node_isBroken(fs.p1) => Node_isBroken(fs'.p1))
        /\ (Node_isBroken(fs.p2) => Node_isBroken(fs'.p2))
        /\ (Filesystem_isBroken(fs) => Filesystem_isBroken(fs')) ]_vars

(* a broken node was given, by a setter, flags and content that satisfy the *)
(* local tree invariant, and is still broken                                 *)
C2_Witness ==
    /\ nop.name \in {"setContent", "setHasParent", "setHasChild"}
    /\ Node_isBroken(nprev)
    /\ nprev.broken \in {"tree-nonempty-noparent", "tree-notdir-haschild"}
    /\ (node.content.type # EMPTY => node.has_parent)
    /\ (node.has_child => node.content.type = DIR)
    /\ Node_isBroken(node)

(* The break reason the local tree invariant gives a node with these flags  *)
(* and this content, or the reason it had                                   *)
LocalReason(has_parent, content, has_child, before) ==
    IF has_child /\ content.type # DIR THEN "tree-notdir-haschild"
    ELSE IF content.type # EMPTY /\ ~has_parent THEN "tree-nonempty-noparent"
    ELSE before

(* C3: applyToNode on a node whose content kind differs from the command's  *)
(* start kind leaves it broken with reason command-start, content and flags *)
(* unchanged; when the kinds match the content becomes the command's end    *)
(* content and the local tree invariant is re-checked.                      *)
C3_ApplyToNode ==
    nop.name = "applyToNode" =>
        /\ node.has_parent = nprev.has_parent
        /\ node.has_child = nprev.has_child
        /\ IF nprev.content.type # nop.arg.start.type
           THEN /\ node.broken = "command-start"
                /\ node.content = nprev.content
           ELSE /\ node.content = nop.arg.end
                /\ node.broken = LocalReason(node.has_parent, node.content,
                                             node.has_child, nprev.broken)

(* a node already broken for another reason, with a child, is given a       *)
(* command whose start kind does not match                                   *)
C3_Witness ==
    /\ nop.name = "applyToNode"
    /\ nprev.content.type # nop.arg.start.type
    /\ nprev.broken = "tree-notdir-haschild"
    /\ nprev.has_child
    /\ nop.arg.end.type # nprev.content.type
    /\ node.broken = "command-start"

(* C10: any two Content values of kind Empty, whatever their stored value  *)
(* strings, are the same for Content.isSame.                                *)
C10_EmptyAlwaysSame ==
    (csame # <<>> /\ ca.type = EMPTY /\ cb.type = EMPTY) => csame[1]

(* the raw combinations the local rules reject *)
Rejected(c) ==
    \/ (c.content.type # EMPTY /\ ~c.has_parent)
    \/ (c.has_child /\ c.content.type # DIR)

(* what a NodeFactory must have yielded after `steps` steps *)
NodeFactoryExact(value, steps, yielded) ==
    /\ steps >= 1 =>
          /\ Len(yielded) >= 1
          /\ yielded[1].broken = "Constructor"
    /\ \A n \in 2..Len(yielded) : yielded[n].broken = NONE
    /\ \A k \in 1..12 : k < steps =>
          ( (\E n \in 2..Len(yielded) :
                /\ yielded[n].has_parent = RawCombos(value)[k].has_parent
                /\ yielded[n].content = RawCombos(value)[k].content
                /\ yielded[n].has_child = RawCombos(value)[k].has_child)
            <=> ~Rejected(RawCombos(value)[k]) )
    /\ Len(yielded) <= 6
    /\ steps = 13 =>
          /\ Len(yielded) = 6
          /\ Cardinality({n \in 1..6 : yielded[n].broken = NONE}) = 5
          /\ Cardinality({k \in 1..12 : Rejected(RawCombos(value)[k])}) = 7
          /\ yielded = NodeFactory(value)

(* C9: NodeFactory yields one broken node (reason Constructor) and exactly  *)
(* the combinations of has_parent x kind x has_child that are not rejected  *)
(* by (kind not Empty and no parent) or (has_child and kind not Dir): 5     *)
(* unbroken nodes, 6 nodes in total.                                        *)
C9_NodeFactoryExact ==
    gpc # "-" =>
        /\ NodeFactoryExact("Old1", gi, gnodes1)
        /\ NodeFactoryExact("Old2", gj, gnodes2)

(* both NodeFactory generators have run to their end *)
C9_Witness ==
    /\ gpc = "done"
    /\ gi = 13 /\ Len(gnodes1) = 6
    /\ gj = 13 /\ Len(gnodes2) = 6
    /\ gout = FilesystemFactory(grel)

(* C5: over the 486 pairs of CommandPairFactory the driver writes exactly  *)
(* one line per pair, in generation order.                                  *)
C5_OneLinePerPair ==
    /\ \A n \in 1..Len(out) : out[n].sq = n
    /\ pc = "breaks" => Len(out) = idx - 1
    /\ pc = "simplify" => Len(out) = (idx - 1) + (IF canSimplify THEN 1 ELSE 0)
    /\ pc = "reverse" => Len(out) = idx - 1
    /\ pc = "done" => (Len(out) = 486 /\ idx = 486 /\ NumPairs = 486)

(* the driver has finished *)
C5_Witness ==
    /\ pc = "done"
    /\ Len(out) = 486
    /\ \E n \in 1..Len(out) : out[n].verdict = "simplify =["
    /\ \E n \in 1..Len(out) : out[n].verdict = "no rule"

(* every Filesystem of the enumeration of the pair's relationship is broken *)
(* after the pair is applied to it in order                                 *)
AllBroken(sq) ==
    \A f \in Range(FilesystemFactory(IF sq.rel = SAME THEN SEPARATE ELSE sq.rel)) :
        Filesystem_isBroken(
            Filesystem_applyCommand(Filesystem_applyCommand(f, sq.commands[1]),
                                    sq.commands[2]))

(* C6: the driver reports break for a pair if and only if every Filesystem  *)
(* of the enumeration is broken after the pair is applied; a pair reported  *)
(* break gets no other verdict.                                             *)
C6_BreakIffAllBroken ==
    /\ Len(out) > 0 =>
          /\ out[Len(out)].verdict = "break" <=> AllBroken(CommandPairFactory[out[Len(out)].sq])
          /\ (out[Len(out)].verdict = "break" /\ Len(out) > 1)
                => out[Len(out) - 1].sq # out[Len(out)].sq
    /\ pc \in {"simplify", "reverse"} =>
          /\ ~AllBroken(CommandPairFactory[idx])
          /\ \A n \in 1..Len(out) : out[n].sq = idx => out[n].verdict # "break"
    /\ (pc = "breaks" /\ Len(out) > 0) => out[Len(out)].sq < idx

(* the DirectChildOnly pair (Path1: Empty -> File("New1"); Path2: Dir ->    *)
(* Empty) has just been reported as break                                    *)
C6_Witness ==
    /\ Len(out) > 0
    /\ out[Len(out)].verdict = "break"
    /\ CommandPairFactory[out[Len(out)].sq] =
          CommandPair(Command(PATH1, Content(EMPTY, "Unknown"), Content(FILE, "New1")),
                      Command(PATH2, Content(DIR, "N/A"), Content(EMPTY, "Unknown")),
                      DIRECT_CHILD_ONLY)
    /\ pc = "breaks" /\ idx = out[Len(out)].sq + 1

C4Pair ==
    CommandPair(Command(PATH1, Content(EMPTY, "Unknown"), Content(FILE, "New1")),
                Command(PATH1, Content(FILE, "N/A"), Content(EMPTY, "Unknown")),
                SAME)

C4Candidate == Command(PATH1, Content(EMPTY, "Unknown"), Content(EMPTY, "Unknown"))

(* the simplification test of C4Pair has tried C4Candidate *)
C4Tried ==
    /\ pc = "simplify"
    /\ CommandPairFactory[idx] = C4Pair
    /\ \E k \in 1..Len(Candidates(C4Pair)) : Candidates(C4Pair)[k] = C4Candidate /\ cand > k

C4PairResult(f) ==
    Filesystem_applyCommand(Filesystem_applyCommand(Filesystem_clone(f), C4Pair.commands[1]),
                            C4Pair.commands[2])

C4CandidateResult(f) == Filesystem_applyCommand(Filesystem_clone(f), C4Candidate)

(* C4 as claimed: for the Same pair (Path1: Empty -> File("New1"); Path1:    *)
(* File -> Empty) the candidate (Path1: Empty -> Empty) is reported as an    *)
(* exact simplification, the two results being the same on every enumerated  *)
(* Separate filesystem whose p1 is Empty.                                    *)
C4_ExactSimplification ==
    C4Tried =>
        /\ \E n \in 1..Len(out) : out[n] = Line(idx, "simplify ==", C4Candidate)
        /\ \A f \in Range(FilesystemFactory(SEPARATE)) :
              f.p1.content.type = EMPTY
                  => Filesystem_isSame(C4PairResult(f), C4CandidateResult(f))

(* C4 as amended: the candidate is reported as an extending simplification:  *)
(* on every enumerated Separate filesystem the pair's result is extended by   *)
(* the candidate's; the results are the same where p1 is Empty and has a      *)
(* parent, and on the broken filesystem; where p1 is Empty without a parent   *)
(* the pair breaks the filesystem and the candidate does not.                 *)
C4_ExtendingSimplification ==
    C4Tried =>
        /\ \E n \in 1..Len(out) : out[n] = Line(idx, "simplify =[", C4Candidate)
        /\ \A n \in 1..Len(out) : out[n] # Line(idx, "simplify ==", C4Candidate)
        /\ \A f \in Range(FilesystemFactory(SEPARATE)) :
              /\ Filesystem_isExtendedBy(C4PairResult(f), C4CandidateResult(f))
              /\ (f.p1.content.type = EMPTY /\ (f.p1.has_parent \/ Filesystem_isBroken(f)))
                    => Filesystem_isSame(C4PairResult(f), C4CandidateResult(f))
              /\ (f.p1.content.type = EMPTY /\ ~f.p1.has_parent /\ ~Filesystem_isBroken(f))
                    => /\ C4PairResult(f).p1.broken = "tree-nonempty-noparent"
                       /\ ~Filesystem_isBroken(C4CandidateResult(f))

(* the driver has just tried the candidate on the pair *)
C4_Witness ==
    /\ C4Tried
    /\ canSimplify
    /\ out[Len(out)] = Line(idx, "simplify =[", C4Candidate)
    /\ \E f \in Range(FilesystemFactory(SEPARATE)) :
          f.p1.content.type = EMPTY /\ ~f.p1.has_parent /\ ~Filesystem_isBroken(f)

(* the three filesystems of the iteration *)
Compared == {efs, fs_res, fs_single}

(* C7: isExtendedBy is reflexive and transitive; a broken filesystem is     *)
(* extended by every filesystem and an unbroken one is never extended by a  *)
(* broken one, so the relation is not symmetric.                            *)
C7_ExtendedByPreorder ==
    /\ \A a \in Compared : Filesystem_isExtendedBy(a, a)
    /\ \A a \in Compared, b \in Compared, c \in Compared :
          (Filesystem_isExtendedBy(a, b) /\ Filesystem_isExtendedBy(b, c))
              => Filesystem_isExtendedBy(a, c)
    /\ \A a \in Compared, z \in Enumerated \cup Compared :
          /\ (Node_isBroken(a.p1) \/ Node_isBroken(a.p2)) => Filesystem_isExtendedBy(a, z)
          /\ ((Node_isBroken(a.p1) \/ Node_isBroken(a.p2))
                 /\ ~(Node_isBroken(z.p1) \/ Node_isBroken(z.p2)))
                => ~Filesystem_isExtendedBy(z, a)
          /\ ((Node_isBroken(z.p1) \/ Node_isBroken(z.p2))
                 /\ ~(Node_isBroken(a.p1) \/ Node_isBroken(a.p2)))
                => (Filesystem_isExtendedBy(z, a) /\ ~Filesystem_isExtendedBy(a, z))

(* the pair broke its clone and the single command did not: the broken      *)
(* result is extended by the unbroken one and not the other way round       *)
C7_Witness ==
    /\ applied = {"res", "single"}
    /\ Filesystem_isBroken(fs_res) /\ ~Filesystem_isBroken(fs_single)
    /\ Filesystem_isExtendedBy(fs_res, fs_single)
    /\ ~Filesystem_isExtendedBy(fs_single, fs_res)
    /\ Filesystem_isExtendedBy(efs, fs_single) /\ ~Filesystem_isBroken(efs)

ComparedNodes == {f.p1 : f \in Compared} \cup {f.p2 : f \in Compared}

EnumeratedNodes == Range(NodeFactory("Old1")) \cup Range(NodeFactory("Old2"))

(* C8: Filesystem.isSame and Node.isSame are reflexive and symmetric; two   *)
(* broken entities are the same whatever their reasons, flags, contents and *)
(* relationship, and a broken entity is never the same as an unbroken one.  *)
C8_IsSameLaws ==
    /\ \A a \in Compared : Filesystem_isSame(a, a)
    /\ \A a \in Compared, z \in Enumerated \cup Compared :
          /\ Filesystem_isSame(a, z) <=> Filesystem_isSame(z, a)
          /\ ((Node_isBroken(a.p1) \/ Node_isBroken(a.p2))
                 /\ (Node_isBroken(z.p1) \/ Node_isBroken(z.p2)))
                => Filesystem_isSame(a, z)
          /\ ((Node_isBroken(a.p1) \/ Node_isBroken(a.p2))
                 # (Node_isBroken(z.p1) \/ Node_isBroken(z.p2)))
                => ~Filesystem_isSame(a, z)
    /\ \A n \in ComparedNodes : Node_isSame(n, n)
    /\ \A n \in ComparedNodes, m \in EnumeratedNodes \cup ComparedNodes :
          /\ Node_isSame(n, m) <=> Node_isSame(m, n)
          /\ (n.broken # NONE /\ m.broken # NONE) => Node_isSame(n, m)
          /\ ((n.broken # NONE) # (m.broken # NONE)) => ~Node_isSame(n, m)

(* two results broken for different reasons in different nodes, with        *)
(* different contents, and a broken filesystem of another relationship       *)
C8_Witness ==
    /\ applied = {"res", "single"}
    /\ Node_isBroken(fs_res.p1) /\ ~Node_isBroken(fs_res.p2)
    /\ ~Node_isBroken(fs_single.p1) /\ Node_isBroken(fs_single.p2)
    /\ fs_res.p1.broken # fs_single.p2.broken
    /\ fs_res.p2.content # fs_single.p2.content
    /\ Filesystem_isSame(fs_res, fs_single)
    /\ \E z \in Enumerated : z.rel # fs_res.rel /\ Filesystem_isSame(z, fs_res)

(* C12: applyCommand never changes has_parent or has_child of the command's *)
(* target node and never changes the content of the other node; under the   *)
(* Separate relationship the other node is left entirely unchanged.         *)
(* TargetOf is the node the last command of SpecFs was aimed at, OtherOf    *)
(* the other node.                                                          *)
C12_FlagsAndContentApart ==
    LET TargetOf(f) == IF fcmd.path = PATH1 THEN f.p1 ELSE f.p2
        OtherOf(f)  == IF fcmd.path = PATH1 THEN f.p2 ELSE f.p1
    IN
    fcmd # NoCommand =>
        /\ TargetOf(fs).has_parent = TargetOf(fprev).has_parent
        /\ TargetOf(fs).has_child = TargetOf(fprev).has_child
        /\ OtherOf(fs).content = OtherOf(fprev).content
        /\ fs.rel = fprev.rel
        /\ fs.rel = SEPARATE => OtherOf(fs) = OtherOf(fprev)

(* a command changed the content of its target and a flag of the other node *)
C12_Witness ==
    LET TargetOf(f) == IF fcmd.path = PATH1 THEN f.p1 ELSE f.p2
        OtherOf(f)  == IF fcmd.path = PATH1 THEN f.p2 ELSE f.p1
    IN
    /\ fcmd # NoCommand
    /\ fs.rel # SEPARATE
    /\ ~Filesystem_isBroken(fs)
    /\ TargetOf(fs).content # TargetOf(fprev).content
    /\ \/ OtherOf(fs).has_child # OtherOf(fprev).has_child
       \/ OtherOf(fs).has_parent # OtherOf(fprev).has_parent

(* C14 as claimed: when one run of Node.checkTreeProperty finds both local   *)
(* rules violated, the reason recorded is the first one checked,             *)
(* tree-nonempty-noparent.  BothViolated: the last call ran                  *)
(* Node.checkTreeProperty on the node as it now is, and both local rules are *)
(* violated.                                                                 *)
C14_FirstReasonKept ==
    LET BothViolated ==
            /\ nop.name \in {"-", "checkTreeProperty", "setContent", "setHasChild",
                             "setHasParent", "clone"}
            /\ node # NoNode
            /\ node.content.type # EMPTY /\ ~node.has_parent
            /\ node.has_child /\ node.content.type # DIR
    IN  BothViolated => node.broken = "tree-nonempty-noparent"

(* C14 as amended: when one run of Node.checkTreeProperty finds both local   *)
(* rules violated, the reason recorded is the last one checked,              *)
(* tree-notdir-haschild.                                                     *)
C14_LastReasonWins ==
    LET BothViolated ==
            /\ nop.name \in {"-", "checkTreeProperty", "setContent", "setHasChild",
                             "setHasParent", "clone"}
            /\ node # NoNode
            /\ node.content.type # EMPTY /\ ~node.has_parent
            /\ node.has_child /\ node.content.type # DIR
    IN  BothViolated => node.broken = "tree-notdir-haschild"

(* checkTreeProperty ran on a File node with a child flag and no parent that *)
(* was broken for another reason, and replaced that reason                   *)
C14_Witness ==
    LET BothViolated ==
            /\ nop.name \in {"-", "checkTreeProperty", "setContent", "setHasChild",
                             "setHasParent", "clone"}
            /\ node # NoNode
            /\ node.content.type # EMPTY /\ ~node.has_parent
            /\ node.has_child /\ node.content.type # DIR
    IN
    /\ BothViolated
    /\ nop.name = "checkTreeProperty"
    /\ nprev.broken # node.broken
    /\ node.content.type = FILE

(* C15: every unbroken Node reached by construction, clone, setters and      *)
(* command application satisfies the local tree invariant.                   *)
C15_UnbrokenNodesSound ==
    (node # NoNode /\ node.broken = NONE) =>
        /\ node.content.type # EMPTY => node.has_parent
        /\ node.has_child => node.content.type = DIR

(* a setter gave an unbroken directory node a child, and it stayed unbroken  *)
C15_Witness ==
    /\ nop.name = "setHasChild" /\ nop.arg
    /\ ~nprev.has_child /\ nprev.broken = NONE
    /\ node.has_child /\ node.broken = NONE

(* the two commands of a pair applied to a clone of f, in the given order *)
InOrder(f, first, second) ==
    Filesystem_applyCommand(Filesystem_applyCommand(Filesystem_clone(f), first), second)

(* C16: commands on unrelated paths commute: for every Separate pair and    *)
(* every filesystem of FilesystemFactory(Separate) both orders give the     *)
(* same result, no Separate pair breaks all filesystems, and every Separate *)
(* pair is reported as an exact reversal.                                   *)
C16_SeparateCommute ==
    /\ \A n \in 1..Len(out) :
          CommandPairFactory[out[n].sq].rel = SEPARATE
              => out[n] = Line(n, "reverse ==",
                               CommandPair(CommandPairFactory[n].commands[2],
                                           CommandPairFactory[n].commands[1], SEPARATE))
    /\ (idx <= NumPairs /\ CommandPairFactory[idx].rel = SEPARATE) =>
          /\ CommandPairFactory[idx].commands[1].path = PATH1
          /\ CommandPairFactory[idx].commands[2].path = PATH2
          /\ \A f \in Range(FilesystemFactory(SEPARATE)) :
                Filesystem_isSame(
                    InOrder(f, CommandPairFactory[idx].commands[1],
                               CommandPairFactory[idx].commands[2]),
                    InOrder(f, CommandPairFactory[idx].commands[2],
                               CommandPairFactory[idx].commands[1]))
          /\ ~AllBroken(CommandPairFactory[idx])
    /\ Cardinality({k \in 1..NumPairs : CommandPairFactory[k].rel = SEPARATE}) = 81
    /\ pc = "done" => Cardinality({n \in 1..Len(out) :
                          CommandPairFactory[out[n].sq].rel = SEPARATE}) = 81

(* the last Separate pair has been reported, as an exact reversal *)
C16_Witness ==
    /\ Len(out) = 81
    /\ CommandPairFactory[81].rel = SEPARATE
    /\ out[81].verdict = "reverse =="
    /\ \E f \in Range(FilesystemFactory(SEPARATE)) :
          ~Filesystem_isBroken(InOrder(f, CommandPairFactory[81].commands[1],
                                          CommandPairFactory[81].commands[2]))

(* C17: a Same pair (c1; c2) is reported break if and only if the end kind  *)
(* of c1 differs from the start kind of c2; otherwise exactly one candidate *)
(* is reported as a simplification, the command (Path1, start kind of c1,   *)
(* end content of c2); no Same pair reaches the reversal test or no-rule.   *)
C17_SamePairs ==
    /\ \A n \in 1..Len(out) :
          CommandPairFactory[out[n].sq].rel = SAME =>
              /\ out[n].sq = n
              /\ out[n].verdict = "break"
                    <=> CommandPairFactory[n].commands[1].end.type
                            # CommandPairFactory[n].commands[2].start.type
              /\ out[n].verdict # "break" =>
                    /\ out[n].verdict \in {"simplify ==", "simplify =["}
                    /\ out[n].rhs.path = PATH1
                    /\ out[n].rhs.start.type = CommandPairFactory[n].commands[1].start.type
                    /\ out[n].rhs.end = CommandPairFactory[n].commands[2].end
    /\ pc = "reverse" => CommandPairFactory[idx].rel # SAME
    /\ (pc = "breaks" /\ idx > 1 /\ CommandPairFactory[idx - 1].rel = SAME)
          => Len(out) = idx - 1
    /\ pc = "done" => Len(out) = NumPairs

(* all Same pairs are reported: some break, some simplify exactly, some      *)
(* simplify by extension                                                     *)
C17_Witness ==
    /\ pc = "done"
    /\ \E n \in 1..Len(out) :
          CommandPairFactory[n].rel = SAME /\ out[n].verdict = "break"
    /\ \E n \in 1..Len(out) :
          CommandPairFactory[n].rel = SAME /\ out[n].verdict = "simplify =="
    /\ \E n \in 1..Len(out) :
          CommandPairFactory[n].rel = SAME /\ out[n].verdict = "simplify =["

(* C19: under DirectChild the pair (Path1: Empty -> Dir("New1"); Path2:     *)
(* Empty -> File("New2")) is reported as no-rule, and there is an enumerated *)
(* filesystem that the pair in order leaves unbroken and the reversed order  *)
(* breaks.  C19OrderMatters: the filesystems that the pair in order leaves  *)
(* unbroken and the reversed order breaks.                                   *)
C19_OrderDependence ==
    LET C19Pair ==
            CommandPair(Command(PATH1, Content(EMPTY, "Unknown"), Content(DIR, "New1")),
                        Command(PATH2, Content(EMPTY, "Unknown"), Content(FILE, "New2")),
                        DIRECT_CHILD)
        C19Index == CHOOSE k \in 1..NumPairs : CommandPairFactory[k] = C19Pair
        C19OrderMatters ==
            {f \in Range(FilesystemFactory(DIRECT_CHILD)) :
                /\ ~Filesystem_isBroken(InOrder(f, C19Pair.commands[1], C19Pair.commands[2]))
                /\ Filesystem_isBroken(InOrder(f, C19Pair.commands[2], C19Pair.commands[1]))}
    IN
    /\ CommandPairFactory[C19Index] = C19Pair
    /\ Len(out) >= C19Index =>
          /\ out[C19Index] = Line(C19Index, "no rule", NoCommand)
          /\ C19OrderMatters # {}
    /\ (pc = "breaks" /\ idx > C19Index) => Len(out) >= C19Index
    /\ (idx = C19Index /\ pc = "reverse") => C19OrderMatters # {}

(* the pair has just been reported as no-rule *)
C19_Witness ==
    LET C19Pair ==
            CommandPair(Command(PATH1, Content(EMPTY, "Unknown"), Content(DIR, "New1")),
                        Command(PATH2, Content(EMPTY, "Unknown"), Content(FILE, "New2")),
                        DIRECT_CHILD)
        C19Index == CHOOSE k \in 1..NumPairs : CommandPairFactory[k] = C19Pair
        C19OrderMatters ==
            {f \in Range(FilesystemFactory(DIRECT_CHILD)) :
                /\ ~Filesystem_isBroken(InOrder(f, C19Pair.commands[1], C19Pair.commands[2]))
                /\ Filesystem_isBroken(InOrder(f, C19Pair.commands[2], C19Pair.commands[1]))}
    IN
    /\ Len(out) = C19Index
    /\ out[C19Index].verdict = "no rule"
    /\ pc = "breaks" /\ idx = C19Index + 1
    /\ \E f \in C19OrderMatters :
          /\ f.p1.content.type = EMPTY /\ f.p2.content.type = EMPTY
          /\ InOrder(f, C19Pair.commands[2], C19Pair.commands[1]).p2.broken
                = "tree-nonempty-noparent"

(* C18: a.isSame(b) holds if and only if a.isExtendedBy(b) and              *)
(* b.isExtendedBy(a) both hold; so a result that is exact is also extending. *)
C18_SameIffBothExtend ==
    \A a \in Compared, z \in Enumerated \cup Compared :
        /\ Filesystem_isSame(a, z)
              <=> (Filesystem_isExtendedBy(a, z) /\ Filesystem_isExtendedBy(z, a))
        /\ Filesystem_isSame(z, a)
              <=> (Filesystem_isExtendedBy(a, z) /\ Filesystem_isExtendedBy(z, a))
        /\ Filesystem_isSame(a, z) => Filesystem_isExtendedBy(a, z)

(* the two results are unbroken, differ from the enumerated filesystem and   *)
(* are the same, each extended by the other                                  *)
C18_Witness ==
    /\ applied = {"res", "single"}
    /\ ~Filesystem_isBroken(fs_res) /\ ~Filesystem_isBroken(fs_single)
    /\ fs_res.p1.content # efs.p1.content
    /\ Filesystem_isSame(fs_res, fs_single)
    /\ Filesystem_isExtendedBy(fs_res, fs_single)
    /\ Filesystem_isExtendedBy(fs_single, fs_res)
    /\ ~Filesystem_isSame(efs, fs_res)

(***************************************************************************)
(* CommandPair objects by identity.  pheap.lists holds the Python lists of *)
(* commands (the index is the identity of the list), pheap.objs holds the  *)
(* CommandPair objects, each naming its list.  pfrom[k] is the object that *)
(* object k was reversed from (0 for the pair the factory made), pmade[k]  *)
(* the value object k had when it was created.                             *)
(***************************************************************************)

(* the number of CommandPair objects one run creates *)
MaxPairObjects == 3

(* CommandPair.__init__: a new list [command1, command2] and a new object *)
PairHeap_new(h, command1, command2, rel) ==
    [lists |-> Append(h.lists, <<command1, command2>>),
     objs  |-> Append(h.objs, [commands |-> Len(h.lists) + 1, rel |-> rel])]

(* the pair an object stands for *)
PairHeap_value(h, k) ==
    [commands |-> h.lists[h.objs[k].commands], rel |-> h.objs[k].rel]

(* a clone that keeps the list of the original *)
PairHeap_clone_sharedList(h, k) ==
    [lists |-> h.lists, objs |-> Append(h.objs, h.objs[k])]

(* CommandPair.clone: the constructor called on the two commands and rel *)
PairHeap_clone(h, k) ==
    PairHeap_new(h, h.lists[h.objs[k].commands][1], h.lists[h.objs[k].commands][2],
                 h.objs[k].rel)

(* CommandPair.getReverse.  Sequence.getReverse: tmp = self.clone();     *)
(* tmp.commands.reverse(), the list of tmp reversed in place (tmp is the *)
(* last object of the heap); then tmp.rel is assigned from self.rel      *)
PairHeap_getReverse(h, k) ==
    LET h0  == PairHeap_clone(h, k)
        tmp == Len(h0.objs)
        h1  == [h0 EXCEPT !.lists[h0.objs[tmp].commands] =
                              [i \in 1..Len(@) |-> @[Len(@) + 1 - i]]]
        rel == h.objs[k].rel
    IN  IF rel = DIRECT_PARENT THEN [h1 EXCEPT !.objs[tmp].rel = DIRECT_CHILD]
        ELSE IF rel = DIRECT_PARENT_ONLY THEN [h1 EXCEPT !.objs[tmp].rel = DIRECT_CHILD_ONLY]
        ELSE IF rel = DIRECT_CHILD THEN [h1 EXCEPT !.objs[tmp].rel = DIRECT_PARENT]
        ELSE IF rel = DIRECT_CHILD_ONLY THEN [h1 EXCEPT !.objs[tmp].rel = DIRECT_PARENT_ONLY]
        ELSE h1

(* one pair of CommandPairFactory *)
PairInit ==
    /\ \E i \in 1..NumPairs :
          /\ pheap = PairHeap_new([lists |-> <<>>, objs |-> <<>>],
                                  CommandPairFactory[i].commands[1],
                                  CommandPairFactory[i].commands[2],
                                  CommandPairFactory[i].rel)
          /\ pmade = <<CommandPairFactory[i]>>
    /\ pfrom = <<0>>
    /\ ContentIdle /\ NodeIdle /\ FsIdle /\ CmpIdle /\ GenIdle /\ DriverIdle /\ IterIdle

(* sq_rev = sq.getReverse() on any pair object made so far *)
PairGetReverse(k) ==
    /\ Len(pheap.objs) < MaxPairObjects
    /\ pheap' = PairHeap_getReverse(pheap, k)
    /\ pfrom' = Append(pfrom, k)
    /\ pmade' = Append(pmade, PairHeap_value(pheap', Len(pheap'.objs)))
    /\ UNCHANGED <<contentVars, nodeVars, fsVars, cmpVars, genVars, driverVars, iterVars>>

PairNext == \E k \in 1..Len(pheap.objs) : PairGetReverse(k)

SpecPair == PairInit /\ [][PairNext]_vars

(* C11: getReverse returns a new pair, with a list of its own, holding the  *)
(* two commands in swapped order and the relationship remapped by the       *)
(* involution; no pair object changes after it was made, so the original is *)
(* not modified; and the reverse of a reverse has the command order and the *)
(* relationship of the original.                                            *)
C11_ReverseIsInvolution ==
    LET ReversedRel(rel) ==
            CASE rel = DIRECT_PARENT      -> DIRECT_CHILD
              [] rel = DIRECT_CHILD       -> DIRECT_PARENT
              [] rel = DIRECT_PARENT_ONLY -> DIRECT_CHILD_ONLY
              [] rel = DIRECT_CHILD_ONLY  -> DIRECT_PARENT_ONLY
              [] rel = SEPARATE           -> SEPARATE
              [] rel = SAME               -> SAME
    IN
    \A k \in 1..Len(pheap.objs) :
        /\ PairHeap_value(pheap, k) = pmade[k]
        /\ \A j \in 1..Len(pheap.objs) :
              j # k => pheap.objs[j].commands # pheap.objs[k].commands
        /\ pfrom[k] # 0 =>
              /\ pmade[k].commands = <<pmade[pfrom[k]].commands[2], pmade[pfrom[k]].commands[1]>>
              /\ pmade[k].rel = ReversedRel(pmade[pfrom[k]].rel)
              /\ pmade[k] = CommandPair_getReverse(pmade[pfrom[k]])
              /\ pfrom[pfrom[k]] # 0 => PairHeap_value(pheap, k) = pmade[pfrom[pfrom[k]]]

(* a DirectChildOnly pair of two different commands was reversed, and its *)
(* reverse was reversed again                                             *)
C11_Witness ==
    /\ Len(pheap.objs) = 3
    /\ pfrom = <<0, 1, 2>>
    /\ pmade[1].rel = DIRECT_CHILD_ONLY
    /\ pmade[1].commands[1] # pmade[1].commands[2]
    /\ pmade[2].rel = DIRECT_PARENT_ONLY

(***************************************************************************)
(* One iteration of a test loop, with Node objects by identity.  nheap     *)
(* holds the Node objects (the index is the identity of the node); a       *)
(* Filesystem object names its two nodes.  Content objects have no method  *)
(* that changes them and are kept by value inside the node.  ifs is the    *)
(* instance FilesystemFactory yielded, iyield its value when it was        *)
(* yielded, ires and iother the clones the test made, imut the nodes of    *)
(* the objects a sequence or a command was applied to.                     *)
(***************************************************************************)

(* the Filesystem an object stands for *)
FsHeap_value(h, o) == [p1 |-> h[o.p1], p2 |-> h[o.p2], rel |-> o.rel]

FsHeap_nodes(o) == {o.p1, o.p2}

(* the setters change the two Node objects of the Filesystem in place *)
FsHeap_applyCommand(h, o, command) ==
    [h EXCEPT ![o.p1] = Filesystem_applyCommand(FsHeap_value(h, o), command).p1,
              ![o.p2] = Filesystem_applyCommand(FsHeap_value(h, o), command).p2]

FsHeap_applySequence(h, o, sequence) ==
    [h EXCEPT ![o.p1] = Filesystem_applySequence(FsHeap_value(h, o), sequence).p1,
              ![o.p2] = Filesystem_applySequence(FsHeap_value(h, o), sequence).p2]

(* a clone whose Filesystem object keeps the two Node objects of the original *)
FsHeap_clone_shallow(h, o) ==
    [heap |-> [h EXCEPT ![o.p1] = Filesystem_checkTreeProperty(FsHeap_value(h, o)).p1,
                        ![o.p2] = Filesystem_checkTreeProperty(FsHeap_value(h, o)).p2],
     obj  |-> o]

(* Filesystem.clone: two new Node objects made by Node.clone, handed to the *)
(* constructor, which runs checkTreeProperty on them                        *)
FsHeap_clone(h, o) ==
    [heap |-> h \o << Filesystem_clone(FsHeap_value(h, o)).p1,
                      Filesystem_clone(FsHeap_value(h, o)).p2 >>,
     obj  |-> [p1 |-> Len(h) + 1, p2 |-> Len(h) + 2, rel |-> o.rel]]

(* the tests the driver runs on a pair: the simplification test on Same *)
(* pairs, the reversal test when no simplification was printed         *)
TestsOf(sq) ==
    {"breaks"}
    \cup (IF ~BreaksAllTest(sq) /\ CommandPair_getRelationship(sq) = SAME
          THEN {"simplify"} ELSE {})
    \cup (IF ~BreaksAllTest(sq)
             /\ ~(/\ CommandPair_getRelationship(sq) = SAME
                  /\ \E c \in 1..Len(Candidates(sq)) :
                        \/ SimplifiesEq(sq, Candidates(sq)[c])
                        \/ SimplifiesExt(sq, Candidates(sq)[c]))
          THEN {"reverse"} ELSE {})

(* for fs in FilesystemFactory(fs_rel): a pair, a test on it, and one   *)
(* Filesystem the loop of that test gets; the breaks-all loop gets to   *)
(* the j-th Filesystem when the pair broke all before it                *)
IterInit ==
    /\ \E i \in 1..NumPairs :
        \E t \in TestsOf(CommandPairFactory[i]) :
          \E j \in 1..Len(Filesystems[FsRelOf(CommandPairFactory[i])]) :
            /\ t = "breaks" =>
                  \A k \in 1..(j - 1) :
                      Filesystem_isBroken(Filesystem_applySequence(
                          Filesystems[FsRelOf(CommandPairFactory[i])][k],
                          CommandPairFactory[i]))
            /\ isq = i
            /\ itest = t
            /\ iyield = Filesystems[FsRelOf(CommandPairFactory[i])][j]
    /\ nheap = << iyield.p1, iyield.p2 >>
    /\ ifs = [p1 |-> 1, p2 |-> 2, rel |-> iyield.rel]
    /\ ires = NoObject
    /\ iother = NoObject
    /\ ipc = "yielded"
    /\ imut = {}
    /\ ContentIdle /\ NodeIdle /\ FsIdle /\ CmpIdle /\ GenIdle /\ DriverIdle /\ PairIdle

(* breaks-all test: fs.applySequence(sq) *)
IterBreaksApply ==
    /\ itest = "breaks"
    /\ ipc = "yielded"
    /\ nheap' = FsHeap_applySequence(nheap, ifs, CommandPairFactory[isq])
    /\ imut' = imut \cup FsHeap_nodes(ifs)
    /\ ipc' = "end"
    /\ UNCHANGED <<ifs, ires, iother, iyield, itest, isq>>
    /\ UNCHANGED <<contentVars, nodeVars, fsVars, cmpVars, genVars, driverVars, pairVars>>

(* simplification and reversal tests: fs_res = fs.clone() *)
IterCloneRes ==
    /\ itest \in {"simplify", "reverse"}
    /\ ipc = "yielded"
    /\ nheap' = FsHeap_clone(nheap, ifs).heap
    /\ ires' = FsHeap_clone(nheap, ifs).obj
    /\ ipc' = "res-cloned"
    /\ UNCHANGED <<ifs, iother, iyield, itest, isq, imut>>
    /\ UNCHANGED <<contentVars, nodeVars, fsVars, cmpVars, genVars, driverVars, pairVars>>

(* fs_res.applySequence(sq) *)
IterApplyRes ==
    /\ ipc = "res-cloned"
    /\ nheap' = FsHeap_applySequence(nheap, ires, CommandPairFactory[isq])
    /\ imut' = imut \cup FsHeap_nodes(ires)
    /\ ipc' = "res-applied"
    /\ UNCHANGED <<ifs, ires, iother, iyield, itest, isq>>
    /\ UNCHANGED <<contentVars, nodeVars, fsVars, cmpVars, genVars, driverVars, pairVars>>

(* fs_single = fs.clone(), fs_rev_res = fs.clone() *)
IterCloneOther ==
    /\ ipc = "res-applied"
    /\ nheap' = FsHeap_clone(nheap, ifs).heap
    /\ iother' = FsHeap_clone(nheap, ifs).obj
    /\ ipc' = "other-cloned"
    /\ UNCHANGED <<ifs, ires, iyield, itest, isq, imut>>
    /\ UNCHANGED <<contentVars, nodeVars, fsVars, cmpVars, genVars, driverVars, pairVars>>

(* fs_single.applyCommand(command), for a candidate of the pair *)
IterApplySingle(command) ==
    /\ itest = "simplify"
    /\ ipc = "other-cloned"
    /\ nheap' = FsHeap_applyCommand(nheap, iother, command)
    /\ imut' = imut \cup FsHeap_nodes(iother)
    /\ ipc' = "end"
    /\ UNCHANGED <<ifs, ires, iother, iyield, itest, isq>>
    /\ UNCHANGED <<contentVars, nodeVars, fsVars, cmpVars, genVars, driverVars, pairVars>>

(* fs_rev_res.applySequence(sq_rev) *)
IterApplyReverse ==
    /\ itest = "reverse"
    /\ ipc = "other-cloned"
    /\ nheap' = FsHeap_applySequence(nheap, iother,
                                     CommandPair_getReverse(CommandPairFactory[isq]))
    /\ imut' = imut \cup FsHeap_nodes(iother)
    /\ ipc' = "end"
    /\ UNCHANGED <<ifs, ires, iother, iyield, itest, isq>>
    /\ UNCHANGED <<contentVars, nodeVars, fsVars, cmpVars, genVars, driverVars, pairVars>>

IterNext ==
    \/ IterBreaksApply
    \/ IterCloneRes
    \/ IterApplyRes
    \/ IterCloneOther
    \/ \E c \in 1..Len(Candidates(CommandPairFactory[isq])) :
          IterApplySingle(Candidates(CommandPairFactory[isq])[c])
    \/ IterApplyReverse

SpecIteration == IterInit /\ [][IterNext]_vars

(* C13, as stated: in every test a sequence or command is applied only to *)
(* a fresh clone, so the yielded instance is never among the objects      *)
(* something was applied to, and it keeps the value it was yielded with.  *)
C13_YieldedNeverMutated ==
    /\ imut \cap FsHeap_nodes(ifs) = {}
    /\ FsHeap_value(nheap, ifs) = iyield

(* C13, amended: in the simplification and reversal tests a sequence or a   *)
(* command is applied only to a fresh clone (new Node objects, shared with  *)
(* no other Filesystem), the yielded instance is not among the objects      *)
(* something was applied to and keeps its nodes and contents whatever is    *)
(* done to its clones; the breaks-all test makes no clone and applies the   *)
(* pair to the yielded instance itself.                                     *)
C13_ClonesOnlyInSimplifyAndReverse ==
    /\ itest \in {"simplify", "reverse"} =>
          /\ imut \cap FsHeap_nodes(ifs) = {}
          /\ imut \subseteq FsHeap_nodes(ires) \cup FsHeap_nodes(iother)
          /\ FsHeap_value(nheap, ifs) = iyield
    /\ ires # NoObject =>
          /\ FsHeap_nodes(ires) \cap FsHeap_nodes(ifs) = {}
          /\ Cardinality(FsHeap_nodes(ires)) = 2
    /\ iother # NoObject =>
          /\ FsHeap_nodes(iother) \cap (FsHeap_nodes(ifs) \cup FsHeap_nodes(ires)) = {}
          /\ Cardinality(FsHeap_nodes(iother)) = 2
    /\ (ipc = "other-cloned" /\ ~Filesystem_isBroken(iyield)) =>
          Filesystem_isSame(FsHeap_value(nheap, iother), iyield)
    /\ itest = "breaks" =>
          /\ ires = NoObject /\ iother = NoObject
          /\ ipc = "end" => imut = FsHeap_nodes(ifs)

(* a reversal test ran to its end on an unbroken Filesystem, both clones *)
(* were changed by what was applied to them, and they ended up different *)
C13_Witness ==
    /\ itest = "reverse"
    /\ ipc = "end"
    /\ ~Filesystem_isBroken(iyield)
    /\ ~Filesystem_isSame(FsHeap_value(nheap, ires), iyield)
    /\ ~Filesystem_isSame(FsHeap_value(nheap, iother), iyield)
    /\ ~Filesystem_isSame(FsHeap_value(nheap, ires), FsHeap_value(nheap, iother))

====
